---- MODULE Spec2Model ----
(***************************************************************************)
(* A model of epcgen: the mod-97 checksum functions of src/src/ibanrf.rs   *)
(* (iban::is_valid, rf::is_valid and their shared transform) and the       *)
(* payload builder of src/src/epcgen.rs (the setters and build()) with the *)
(* text format of a payload (impl Display for Epc).                        *)
(*                                                                         *)
(* A Rust string is modelled as the sequence of its characters, each       *)
(* character as its Unicode code point.  Rust's str::len() and str::get()  *)
(* count UTF-8 bytes, so the byte width of every character is kept         *)
(* (Utf8Len) and byte offsets are computed from it.                        *)
(*                                                                         *)
(* Option<T> is modelled as a sequence of length 0 (None) or 1 (Some).     *)
(* A panic (unwrap/expect on None or Err) is an outcome of its own.        *)
(***************************************************************************)
EXTENDS Integers, Sequences, FiniteSets, TLC

\* ------------------------------------------------------------------
\* Characters
\* ------------------------------------------------------------------

\* char::len_utf8
Utf8Len(c) ==
    IF c < 128 THEN 1 ELSE IF c < 2048 THEN 2 ELSE IF c < 65536 THEN 3 ELSE 4

\* char::is_ascii_digit: '0'..'9'
is_ascii_digit(c) == c \in 48..57

\* char::is_ascii_uppercase: 'A'..'Z'
is_ascii_uppercase(c) == c \in 65..90

\* The ranges of non-ASCII code points in Unicode's general categories Nd,
\* Nl and No (Unicode 17.0.0): 145 ranges holding 1914 code points, from the
\* superscript two (U+00B2) to the outlined digits (U+1FBF0..U+1FBF9).
NumericRanges ==
    << << 178, 179 >>, << 185, 185 >>, << 188, 190 >>, << 1632, 1641 >>,
       << 1776, 1785 >>, << 1984, 1993 >>, << 2406, 2415 >>,
       << 2534, 2543 >>, << 2548, 2553 >>, << 2662, 2671 >>,
       << 2790, 2799 >>, << 2918, 2927 >>, << 2930, 2935 >>,
       << 3046, 3058 >>, << 3174, 3183 >>, << 3192, 3198 >>,
       << 3302, 3311 >>, << 3416, 3422 >>, << 3430, 3448 >>,
       << 3558, 3567 >>, << 3664, 3673 >>, << 3792, 3801 >>,
       << 3872, 3891 >>, << 4160, 4169 >>, << 4240, 4249 >>,
       << 4969, 4988 >>, << 5870, 5872 >>, << 6112, 6121 >>,
       << 6128, 6137 >>, << 6160, 6169 >>, << 6470, 6479 >>,
       << 6608, 6618 >>, << 6784, 6793 >>, << 6800, 6809 >>,
       << 6992, 7001 >>, << 7088, 7097 >>, << 7232, 7241 >>,
       << 7248, 7257 >>, << 8304, 8304 >>, << 8308, 8313 >>,
       << 8320, 8329 >>, << 8528, 8578 >>, << 8581, 8585 >>,
       << 9312, 9371 >>, << 9450, 9471 >>, << 10102, 10131 >>,
       << 11517, 11517 >>, << 12295, 12295 >>, << 12321, 12329 >>,
       << 12344, 12346 >>, << 12690, 12693 >>, << 12832, 12841 >>,
       << 12872, 12879 >>, << 12881, 12895 >>, << 12928, 12937 >>,
       << 12977, 12991 >>, << 42528, 42537 >>, << 42726, 42735 >>,
       << 43056, 43061 >>, << 43216, 43225 >>, << 43264, 43273 >>,
       << 43472, 43481 >>, << 43504, 43513 >>, << 43600, 43609 >>,
       << 44016, 44025 >>, << 65296, 65305 >>, << 65799, 65843 >>,
       << 65856, 65912 >>, << 65930, 65931 >>, << 66273, 66299 >>,
       << 66336, 66339 >>, << 66369, 66369 >>, << 66378, 66378 >>,
       << 66513, 66517 >>, << 66720, 66729 >>, << 67672, 67679 >>,
       << 67705, 67711 >>, << 67751, 67759 >>, << 67835, 67839 >>,
       << 67862, 67867 >>, << 68028, 68029 >>, << 68032, 68047 >>,
       << 68050, 68095 >>, << 68160, 68168 >>, << 68221, 68222 >>,
       << 68253, 68255 >>, << 68331, 68335 >>, << 68440, 68447 >>,
       << 68472, 68479 >>, << 68521, 68527 >>, << 68858, 68863 >>,
       << 68912, 68921 >>, << 68928, 68937 >>, << 69216, 69246 >>,
       << 69405, 69414 >>, << 69457, 69460 >>, << 69573, 69579 >>,
       << 69714, 69743 >>, << 69872, 69881 >>, << 69942, 69951 >>,
       << 70096, 70105 >>, << 70113, 70132 >>, << 70384, 70393 >>,
       << 70736, 70745 >>, << 70864, 70873 >>, << 71248, 71257 >>,
       << 71360, 71369 >>, << 71376, 71395 >>, << 71472, 71483 >>,
       << 71904, 71922 >>, << 72016, 72025 >>, << 72688, 72697 >>,
       << 72784, 72812 >>, << 73040, 73049 >>, << 73120, 73129 >>,
       << 73184, 73193 >>, << 73552, 73561 >>, << 73664, 73684 >>,
       << 74752, 74862 >>, << 90416, 90425 >>, << 92768, 92777 >>,
       << 92864, 92873 >>, << 93008, 93017 >>, << 93019, 93025 >>,
       << 93552, 93561 >>, << 93824, 93846 >>, << 94196, 94198 >>,
       << 118000, 118009 >>, << 119488, 119507 >>, << 119520, 119539 >>,
       << 119648, 119672 >>, << 120782, 120831 >>, << 123200, 123209 >>,
       << 123632, 123641 >>, << 124144, 124153 >>, << 124401, 124410 >>,
       << 125127, 125135 >>, << 125264, 125273 >>, << 126065, 126123 >>,
       << 126125, 126127 >>, << 126129, 126132 >>, << 126209, 126253 >>,
       << 126255, 126269 >>, << 127232, 127244 >>, << 130032, 130041 >> >>

NonAsciiNumeric ==
    UNION { NumericRanges[i][1]..NumericRanges[i][2] : i \in DOMAIN NumericRanges }

\* char::is_numeric: the Unicode general categories Nd, Nl and No.
is_numeric(c) == is_ascii_digit(c) \/ c \in NonAsciiNumeric

\* char::is_whitespace: the code points with the White_Space property.
is_whitespace(c) ==
    c \in {9, 10, 11, 12, 13, 32, 133, 160, 5760, 8232, 8233, 8239, 8287, 12288}
            \cup (8192..8202)

\* ------------------------------------------------------------------
\* Strings: byte lengths, byte-indexed slices
\* ------------------------------------------------------------------

\* The byte offset of the end of the first k characters of s: the sum of
\* their Utf8Len, counted as one byte each plus one more for every character
\* of two bytes or more, of three or more, and of four.
ByteOffset(s, k) ==
    k + Cardinality({i \in 1..k : Utf8Len(s[i]) >= 2})
      + Cardinality({i \in 1..k : Utf8Len(s[i]) >= 3})
      + Cardinality({i \in 1..k : Utf8Len(s[i]) >= 4})

\* str::len: the length in bytes.
ByteLen(s) == ByteOffset(s, Len(s))

\* str::chars().count(): the length in characters.
CharLen(s) == Len(s)

\* str::is_char_boundary
IsCharBoundary(s, i) == \E k \in 0..Len(s) : ByteOffset(s, k) = i

\* The number of characters before byte offset i (a character boundary).
CharsBefore(s, i) == CHOOSE k \in 0..Len(s) : ByteOffset(s, k) = i

\* str::get(a..b): None unless a <= b <= len and both are char boundaries.
StrGet(s, a, b) ==
    IF a <= b /\ IsCharBoundary(s, a) /\ IsCharBoundary(s, b)
    THEN << SubSeq(s, CharsBefore(s, a) + 1, CharsBefore(s, b)) >>
    ELSE << >>

\* str::get(a..)
StrGetFrom(s, a) == StrGet(s, a, ByteLen(s))

\* str::replace(" ", "")
RemoveSpaces(s) == SelectSeq(s, LAMBDA c : c # 32)

\* str::starts_with("RF")
StartsWithRF(s) == Len(s) >= 2 /\ s[1] = 82 /\ s[2] = 70

\* s.chars().all(|c| c.is_ascii_uppercase())
AllAsciiUppercase(s) == \A k \in 1..Len(s) : is_ascii_uppercase(s[k])

\* s.chars().all(|c| c.is_numeric() || c.is_ascii_uppercase())
AllNumericOrUppercase(s) ==
    \A k \in 1..Len(s) : is_numeric(s[k]) \/ is_ascii_uppercase(s[k])

\* s.chars().all(|c| c.is_ascii_digit()): what the integer parsers accept
\* of an unsigned string
AllAsciiDigits(s) == \A k \in 1..Len(s) : is_ascii_digit(s[k])

\* s.chars().all(|c| c.is_ascii_digit() || c == '.')
AllDigitsOrDot(s) == \A k \in 1..Len(s) : is_ascii_digit(s[k]) \/ s[k] = 46

\* ------------------------------------------------------------------
\* Decimal numbers as digit sequences (u128 does not fit a TLC integer)
\* ------------------------------------------------------------------

\* u32::to_string: the decimal digits of n, as characters.
RECURSIVE DecString(_)
DecString(n) ==
    IF n < 10 THEN << 48 + n >> ELSE DecString(n \div 10) \o << 48 + (n % 10) >>

\* u128::MAX = 340282366920938463463374607431768211455, digit by digit.
U128MaxDigits ==
    << 3,4,0, 2,8,2, 3,6,6, 9,2,0, 9,3,8, 4,6,3, 4,6,3,
       3,7,4, 6,0,7, 4,3,1, 7,6,8, 2,1,1, 4,5,5 >>

RECURSIVE StripLeadingZeros(_)
StripLeadingZeros(d) ==
    IF d # << >> /\ Head(d) = 0 THEN StripLeadingZeros(Tail(d)) ELSE d

\* a > b for digit sequences of the same length
RECURSIVE DigitsGreater(_, _)
DigitsGreater(a, b) ==
    IF a = << >> THEN FALSE
    ELSE IF Head(a) # Head(b) THEN Head(a) > Head(b)
    ELSE DigitsGreater(Tail(a), Tail(b))

\* The decimal number exceeds u128::MAX.
ExceedsU128(d) ==
    LET n == StripLeadingZeros(d)
    IN  \/ Len(n) > Len(U128MaxDigits)
        \/ Len(n) = Len(U128MaxDigits) /\ DigitsGreater(n, U128MaxDigits)

\* str::parse::<u128>() of a string without a sign: Ok(value) iff the string
\* is non-empty, all ASCII digits and the value fits 128 bits.  The value is
\* kept as its digit sequence.
ParseU128(s) ==
    IF s # << >> /\ AllAsciiDigits(s)
       /\ ~ExceedsU128([k \in 1..Len(s) |-> s[k] - 48])
    THEN [ok |-> TRUE, digits |-> [k \in 1..Len(s) |-> s[k] - 48]]
    ELSE [ok |-> FALSE, digits |-> << >>]

\* (value of the digit sequence d) % 97
RECURSIVE Mod97From(_, _, _)
Mod97From(d, k, acc) ==
    IF k > Len(d) THEN acc ELSE Mod97From(d, k + 1, (acc * 10 + d[k]) % 97)

Mod97(d) == Mod97From(d, 1, 0)

\* ------------------------------------------------------------------
\* ibanrf.rs: transform, iban::is_valid, rf::is_valid
\* ------------------------------------------------------------------

\* `c as u32 - 55` leaves the range of u32 for a character below '7' (code
\* 55).  Where overflow checks are compiled in (the dev profile) that panics;
\* where they are not (the release profile) the subtraction wraps.
Underflows(c) == ~is_numeric(c) /\ c < 55

\* The digits of 2^32 - (55 - c) = 4294967241 + c for c in 0..54, the
\* wrapped value of `c as u32 - 55`.
WrappedString(c) == << 52, 50, 57, 52, 57, 54, 55, 50 >> \o DecString(41 + c)

\* The closure of transform's map: a numeric character is kept, any other
\* character c becomes the decimal rendering of (c as u32 - 55), wrapped
\* where the subtraction underflows.
ReplaceChar(c) ==
    IF is_numeric(c) THEN << c >>
    ELSE IF Underflows(c) THEN WrappedString(c)
    ELSE DecString(c - 55)

RECURSIVE ReplaceFrom(_, _)
ReplaceFrom(s, k) ==
    IF k > Len(s) THEN << >> ELSE ReplaceChar(s[k]) \o ReplaceFrom(s, k + 1)

\* transform(s): the set of outcomes the builds of the crate can produce,
\* each [ok |-> TRUE, digits |-> the u128 value's digits] or [ok |-> FALSE]
\* for a panic.  The three expect() calls panic in every build; an
\* underflowing `c as u32 - 55` panics with overflow checks and wraps
\* without them, so it yields both the panic and the outcome of parsing the
\* wrapped digits.  The set is a singleton for every other string.
transform(s) ==
    LET first4 == StrGet(s, 0, 4)
        after4 == StrGetFrom(s, 4)
    IN  IF first4 = << >> \/ after4 = << >>
        THEN { [ok |-> FALSE, digits |-> << >>] }
        ELSE LET switched == after4[1] \o first4[1]
                 parsed == ParseU128(ReplaceFrom(switched, 1))
             IN  IF \E k \in 1..Len(switched) : Underflows(switched[k])
                 THEN { [ok |-> FALSE, digits |-> << >>], parsed }
                 ELSE { parsed }

\* The length limits of iban::is_valid and rf::is_valid, in bytes.
IbanMinLen == 4
IbanMaxLen == 34
RfMinLen == 4
RfMaxLen == 25

\* The outcome of a call that returns bool: "true", "false", or "panic".
BoolOutcome(b) == IF b THEN "true" ELSE "false"

\* `transform(s) % 97 == 1`, for each outcome of transform
TransformIsOne(s) ==
    { IF ~t.ok THEN "panic" ELSE BoolOutcome(Mod97(t.digits) = 1) :
        t \in transform(s) }

\* The outcome of a call that has exactly one; undefined for any other set.
\* Both is_valid functions call transform only after every character has
\* passed is_ascii_uppercase or is_numeric, so that no character underflows
\* and every build computes the same value.
Only(outcomes) == CHOOSE o \in outcomes : outcomes = { o }

\* The chain of && after the two length tests of iban::is_valid, on the
\* string with its spaces removed; && short-circuits left to right.
IbanChecks(iban) ==
    LET head == StrGet(iban, 0, 2)
        rest == StrGetFrom(iban, 2)
    IN  IF head = << >> THEN "panic"
        ELSE IF ~AllAsciiUppercase(head[1]) THEN "false"
        ELSE IF rest = << >> THEN "panic"
        ELSE IF ~AllNumericOrUppercase(rest[1]) THEN "false"
        ELSE Only(TransformIsOne(iban))

\* iban::is_valid without its replace(" ", "")
iban_is_valid_NoReplace(s) ==
    IF ~(ByteLen(s) > IbanMinLen) THEN "false"
    ELSE IF ~(ByteLen(s) <= IbanMaxLen) THEN "false"
    ELSE IbanChecks(s)

\* iban::is_valid
iban_is_valid(s) ==
    LET iban == RemoveSpaces(s)
    IN  IF ~(ByteLen(iban) > IbanMinLen) THEN "false"
        ELSE IF ~(ByteLen(iban) <= IbanMaxLen) THEN "false"
        ELSE IbanChecks(iban)

\* rf::is_valid
rf_is_valid(reference) ==
    IF ~(ByteLen(reference) > RfMinLen) THEN "false"
    ELSE IF ~(ByteLen(reference) <= RfMaxLen) THEN "false"
    ELSE IF ~StartsWithRF(reference) THEN "false"
    ELSE LET rest == StrGetFrom(reference, 2)
         IN  IF rest = << >> THEN "panic"
             ELSE IF ~AllNumericOrUppercase(rest[1]) THEN "false"
             ELSE Only(TransformIsOne(reference))

\* ------------------------------------------------------------------
\* epcgen.rs: the values of the payload fields
\* ------------------------------------------------------------------

None == << >>
Some(x) == << x >>

\* enum Version, enum CharacterSet, enum Identification
Versions == {"V1", "V2"}
CharacterSets == {"UTF8"}
Identifications == {"Sct", "Inst"}

\* enum Purpose { Bene, Custom(String) }
Bene == [kind |-> "Bene", s |-> << >>]
Custom(c) == [kind |-> "Custom", s |-> c]

\* enum Remittance { Reference(String), Text(String) }
Reference(r) == [kind |-> "Reference", s |-> r]
Text(r) == [kind |-> "Text", s |-> r]

\* Result<Epc, EpcError>, a panic of build(), or no call made yet
Ok(epc) == [tag |-> "Ok", err |-> "", epc |-> << epc >>]
Err(e) == [tag |-> "Err", err |-> e, epc |-> << >>]
Panic == [tag |-> "Panic", err |-> "", epc |-> << >>]
NoResult == [tag |-> "None", err |-> "", epc |-> << >>]

\* enum EpcError
EpcError ==
    { "MissingVersion", "MissingCharacterSet", "MissingIdentification",
      "BICRequiredInConfiguredVersion", "MissingBeneficiary", "InvalidIBAN",
      "MissingIBAN", "InvalidAmount", "InvalidPurpose",
      "InvalidRemittanceReference", "RemittanceTextTooLong" }

\* Builder::new
BuilderNew ==
    [ service_tag |-> "Bcd", version |-> None, character_set |-> None,
      identification |-> None, bic |-> None, beneficiary |-> None,
      iban |-> None, amount |-> None, purpose |-> None, remittance |-> None,
      information |-> None ]

\* ------------------------------------------------------------------
\* epcgen.rs: Builder::build
\* ------------------------------------------------------------------

\* str::split_once("."): the parts before and after the first '.', or None.
SplitOnceDot(s) ==
    IF \E k \in 1..Len(s) : s[k] = 46
    THEN LET k == CHOOSE i \in 1..Len(s) :
                      s[i] = 46 /\ \A j \in 1..(i - 1) : s[j] # 46
         IN  << << SubSeq(s, 1, k - 1), SubSeq(s, k + 1, Len(s)) >> >>
    ELSE << >>

\* The value of a string of ASCII digits (at most 9 of them here).
RECURSIVE DecValue(_)
DecValue(s) ==
    IF s = << >> THEN 0
    ELSE DecValue(SubSeq(s, 1, Len(s) - 1)) * 10 + (s[Len(s)] - 48)

\* str::parse::<i128>() / parse::<i32>() of a string that holds only ASCII
\* digits and '.': Ok iff it is non-empty and all digits.
ParsesAsInt(s) == s # << >> /\ AllAsciiDigits(s)

\* The match with a first arm that takes 0..=99 for (1..=99): "0.00" passes.
AmountArms_ZeroAccepted(i_part, d_part) ==
    /\ ParsesAsInt(i_part)
    /\ ParsesAsInt(d_part)
    /\ DecValue(i_part) \in 0..999999999
    /\ DecValue(d_part) \in 0..99

\* The match on the two parsed parts: which arms return self.amount.
AmountArms(i_part, d_part) ==
    /\ ParsesAsInt(i_part)
    /\ ParsesAsInt(d_part)
    /\ \/ DecValue(i_part) = 0 /\ DecValue(d_part) \in 1..99
       \/ DecValue(i_part) \in 1..999999999 /\ DecValue(d_part) \in 0..99

\* The amount rule of build(): TRUE iff the supplied amount is kept.
AmountAccepted(amount) ==
    LET ok == AllDigitsOrDot(amount)
        parts == SplitOnceDot(amount)
    IN  /\ ok
        /\ parts # << >>
        /\ ByteLen(parts[1][1]) <= 9
        /\ ByteLen(parts[1][2]) = 2
        /\ AmountArms(parts[1][1], parts[1][2])

\* The guard with the length test alone: any code of 4 bytes passes.
PurposeRejected_LengthOnly(purpose) ==
    /\ purpose # None
    /\ purpose[1].kind = "Custom"
    /\ ByteLen(purpose[1].s) # 4

\* The purpose rule of build(): TRUE iff build() returns InvalidPurpose.
PurposeRejected(purpose) ==
    /\ purpose # None
    /\ purpose[1].kind = "Custom"
    /\ \/ ByteLen(purpose[1].s) # 4
       \/ \E k \in 1..Len(purpose[1].s) : ~is_ascii_uppercase(purpose[1].s[k])

\* The limit of an unstructured remittance text, in bytes.
TextMaxLen == 140

\* The remittance rule of build(): "ok", or the error it returns, or "panic"
\* when rf::is_valid panics.
RemittanceRule(remittance) ==
    IF remittance = None THEN "ok"
    ELSE IF remittance[1].kind = "Reference"
    THEN LET v == rf_is_valid(remittance[1].s)
         IN  IF v = "panic" THEN "panic"
             ELSE IF v = "false" THEN "InvalidRemittanceReference"
             ELSE "ok"
    ELSE IF ByteLen(remittance[1].s) > TextMaxLen THEN "RemittanceTextTooLong"
    ELSE "ok"

\* The Epc value build() returns on success.
EpcOf(b) ==
    [ service_tag |-> b.service_tag, version |-> b.version[1],
      character_set |-> b.character_set[1],
      identification |-> b.identification[1], bic |-> b.bic,
      beneficiary |-> b.beneficiary[1], iban |-> b.iban[1],
      amount |-> b.amount, purpose |-> b.purpose,
      remittance |-> b.remittance, information |-> b.information ]

\* Builder::build, as a function of the builder: the first rule that fails
\* decides the result.
BuildResult(b) ==
    IF b.version = None THEN Err("MissingVersion")
    ELSE IF b.character_set = None THEN Err("MissingCharacterSet")
    ELSE IF b.identification = None THEN Err("MissingIdentification")
    ELSE IF b.bic = None /\ b.version[1] # "V2"
    THEN Err("BICRequiredInConfiguredVersion")
    ELSE IF b.beneficiary = None THEN Err("MissingBeneficiary")
    ELSE IF b.iban = None THEN Err("MissingIBAN")
    ELSE IF iban_is_valid(b.iban[1]) = "panic" THEN Panic
    ELSE IF iban_is_valid(b.iban[1]) = "false" THEN Err("InvalidIBAN")
    ELSE IF b.amount # None /\ ~AmountAccepted(b.amount[1])
    THEN Err("InvalidAmount")
    ELSE IF PurposeRejected(b.purpose) THEN Err("InvalidPurpose")
    ELSE IF RemittanceRule(b.remittance) = "panic" THEN Panic
    ELSE IF RemittanceRule(b.remittance) # "ok"
    THEN Err(RemittanceRule(b.remittance))
    ELSE Ok(EpcOf(b))

\* ------------------------------------------------------------------
\* epcgen.rs: the Display implementations
\* ------------------------------------------------------------------

\* impl Display for ServiceTag: "BCD"
ServiceTagText(t) == << 66, 67, 68 >>

\* impl Display for Version: "001" / "002"
VersionText(v) == IF v = "V1" THEN << 48, 48, 49 >> ELSE << 48, 48, 50 >>

\* impl Display for CharacterSet: "1"
CharacterSetText(c) == << 49 >>

\* impl Display for Identification: "SCT" / "INST"
IdentificationText(i) ==
    IF i = "Sct" THEN << 83, 67, 84 >> ELSE << 73, 78, 83, 84 >>

\* impl Display for Purpose: "BENE", or the custom code as it is
PurposeText(p) == IF p.kind = "Bene" THEN << 66, 69, 78, 69 >> ELSE p.s

\* Option::unwrap_or(&empty_string)
UnwrapOrEmpty(o) == IF o = None THEN << >> ELSE o[1]

\* writeln!(f, "{}", x): x followed by one '\n'
Writeln(x) == x \o << 10 >>

\* The remittance arm of the version that writes a Text on the first of the
\* two lines, like a Reference.
RemittanceBlock_TextFirst(r) ==
    IF r = None THEN Writeln(<< 10 >>) ELSE Writeln(r[1].s \o << 10 >>)

\* The match on self.remittance: writeln!("{}\n", r) for a Reference,
\* writeln!("\n{}", r) for a Text, writeln!("\n") for None.
RemittanceBlock(r) ==
    IF r = None THEN Writeln(<< 10 >>)
    ELSE IF r[1].kind = "Reference" THEN Writeln(r[1].s \o << 10 >>)
    ELSE Writeln(<< 10 >> \o r[1].s)

\* impl Display for Epc (to_string): the text of a payload.
Format(e) ==
    Writeln(ServiceTagText(e.service_tag))
        \o Writeln(VersionText(e.version))
        \o Writeln(CharacterSetText(e.character_set))
        \o Writeln(IdentificationText(e.identification))
        \o Writeln(UnwrapOrEmpty(e.bic))
        \o Writeln(e.beneficiary)
        \o Writeln(e.iban)
        \o Writeln(UnwrapOrEmpty(e.amount))
        \o Writeln(IF e.purpose = None THEN << >> ELSE PurposeText(e.purpose[1]))
        \o RemittanceBlock(e.remittance)
        \o UnwrapOrEmpty(e.information)

\* ------------------------------------------------------------------
\* The strings the model feeds the program
\* ------------------------------------------------------------------

\* "DE90 8306 5408 0004 1042 42" (epcgen.rs tests, ibanrf.rs doc)
IbanGood ==
    << 68, 69, 57, 48, 32, 56, 51, 48, 54, 32, 53, 52, 48, 56, 32, 48, 48,
    48, 52, 32, 49, 48, 52, 50, 32, 52, 50 >>
\* "DE90830654080004104242"
IbanGoodPlain ==
    << 68, 69, 57, 48, 56, 51, 48, 54, 53, 52, 48, 56, 48, 48, 48, 52, 49,
    48, 52, 50, 52, 50 >>
\* "DE90 8306 5408 0004 1042 43"
IbanBadCheck ==
    << 68, 69, 57, 48, 32, 56, 51, 48, 54, 32, 53, 52, 48, 56, 32, 48, 48,
    48, 52, 32, 49, 48, 52, 50, 32, 52, 51 >>
\* "MT84MALT011000012345MTLCAST001S", 31 characters, 12 letters after the check digits
IbanMalta ==
    << 77, 84, 56, 52, 77, 65, 76, 84, 48, 49, 49, 48, 48, 48, 48, 49, 50,
    51, 52, 53, 77, 84, 76, 67, 65, 83, 84, 48, 48, 49, 83 >>
\* "GB82WEST12345698765432" (ibanrf.rs tests)
IbanGB ==
    << 71, 66, 56, 50, 87, 69, 83, 84, 49, 50, 51, 52, 53, 54, 57, 56, 55,
    54, 53, 52, 51, 50 >>
\* "D" U+00E9 "123": byte offset 2 falls inside the two-byte U+00E9
IbanTwoByte ==
    << 68, 233, 49, 50, 51 >>
\* "DE12" U+0663 (ARABIC-INDIC DIGIT THREE)
IbanArabicDigit ==
    << 68, 69, 49, 50, 1635 >>
\* "DE12" U+06F0 (EXTENDED ARABIC-INDIC DIGIT ZERO, two bytes)
IbanPersianDigit ==
    << 68, 69, 49, 50, 1776 >>
\* "DE1" U+0968 "34" (DEVANAGARI DIGIT TWO): byte offset 4 falls inside the
\* three-byte U+0968
IbanDevanagariDigit ==
    << 68, 69, 49, 2408, 51, 52 >>
\* "DE12" U+1D7CE (MATHEMATICAL BOLD DIGIT ZERO, four bytes)
IbanMathDigit ==
    << 68, 69, 49, 50, 120782 >>
\* "RF45G72UUR" (ibanrf.rs doc and tests)
RfGood ==
    << 82, 70, 52, 53, 71, 55, 50, 85, 85, 82 >>
\* "RF55G72UUR"
RfBadCheck ==
    << 82, 70, 53, 53, 71, 55, 50, 85, 85, 82 >>
\* "RF471234567890" (epcgen.rs tests)
RfGood2 ==
    << 82, 70, 52, 55, 49, 50, 51, 52, 53, 54, 55, 56, 57, 48 >>
\* "123456789012345678901234567890123456" (epcgen.rs tests)
RfTooLong ==
    << 49, 50, 51, 52, 53, 54, 55, 56, 57, 48, 49, 50, 51, 52, 53, 54, 55,
    56, 57, 48, 49, 50, 51, 52, 53, 54, 55, 56, 57, 48, 49, 50, 51, 52, 53,
    54 >>
\* "RF12" U+0663
RfArabicDigit ==
    << 82, 70, 49, 50, 1635 >>
\* "RF12" U+06F0
RfPersianDigit ==
    << 82, 70, 49, 50, 1776 >>
\* "RF12" U+2460 (CIRCLED DIGIT ONE, category No, three bytes)
RfCircledDigit ==
    << 82, 70, 49, 50, 9312 >>
\* "GENODEF1SLR"
BicGeno ==
    << 71, 69, 78, 79, 68, 69, 70, 49, 83, 76, 82 >>
\* "Codeberg e.V."
NameCodeberg ==
    << 67, 111, 100, 101, 98, 101, 114, 103, 32, 101, 46, 86, 46 >>
\* "foo"
TextFoo ==
    << 102, 111, 111 >>
\* "thanks"
InfoThanks ==
    << 116, 104, 97, 110, 107, 115 >>
\* "ABCD"
PurposeABCD ==
    << 65, 66, 67, 68 >>
\* "abcd"
PurposeLower ==
    << 97, 98, 99, 100 >>
\* "ABCDE"
PurposeABCDE ==
    << 65, 66, 67, 68, 69 >>
\* "ABC1"
PurposeABC1 ==
    << 65, 66, 67, 49 >>
\* "10.00"
Amount10 ==
    << 49, 48, 46, 48, 48 >>
\* "0.00"
AmountZero ==
    << 48, 46, 48, 48 >>
\* "-0.01"
AmountNegative ==
    << 45, 48, 46, 48, 49 >>
\* "999999999.99"
AmountMax ==
    << 57, 57, 57, 57, 57, 57, 57, 57, 57, 46, 57, 57 >>
\* "1000000000.00"
AmountTenDigits ==
    << 49, 48, 48, 48, 48, 48, 48, 48, 48, 48, 46, 48, 48 >>
\* "9999999990.99" (epcgen.rs tests)
AmountTenDigits2 ==
    << 57, 57, 57, 57, 57, 57, 57, 57, 57, 48, 46, 57, 57 >>
\* "000000000.01"
AmountNineZeros ==
    << 48, 48, 48, 48, 48, 48, 48, 48, 48, 46, 48, 49 >>

\* "DE90<TAB>8306 5408 0004 1042 42": the test IBAN with a tab in it
IbanTabbed ==
    << 68, 69, 57, 48, 9, 56, 51, 48, 54, 32, 53, 52, 48, 56, 32, 48, 48, 48,
    52, 32, 49, 48, 52, 50, 32, 52, 50 >>
\* "007.50"
AmountLeadingZeros ==
    << 48, 48, 55, 46, 53, 48 >>
\* "ABC" (epcgen.rs tests)
PurposeABC ==
    << 65, 66, 67 >>
\* "AB1D"
PurposeAB1D ==
    << 65, 66, 49, 68 >>
\* "BENE" as a custom code
PurposeBENE ==
    << 66, 69, 78, 69 >>
\* "Max<LF>Mustermann": a name of two lines
NameTwoLines ==
    << 77, 97, 120, 10, 77, 117, 115, 116, 101, 114, 109, 97, 110, 110 >>
\* "see<LF>overleaf": an information of two lines
InfoTwoLines ==
    << 115, 101, 101, 10, 111, 118, 101, 114, 108, 101, 97, 102 >>

\* The character c repeated n times.
Rep(c, n) == [k \in 1..n |-> c]

\* All strings over the alphabet A of at most n characters.
SeqsUpTo(A, n) == UNION { [1..k -> A] : k \in 0..n }

\* ------------------------------------------------------------------
\* State
\* ------------------------------------------------------------------

VARIABLES
    builder,    \* the Builder value: its eleven fields
    result,     \* what build() returned for the builder as it stands:
                \* Ok(epc), Err(e), Panic, or NoResult when build() has not
                \* been called since the last setter
    input,      \* the string handed to iban::is_valid / rf::is_valid
    fn,         \* which of the two was called: "iban", "rf", or "none"
    ret,        \* its outcome: "true", "false", "panic", or "none"
    prev,       \* iban::is_valid's outcome on the string before its last edit
    edit,       \* the last edit of input: "none", "space" (a U+0020 was
                \* inserted or removed) or "other" (another whitespace was)
    pc          \* "idle", "start", "edited", "done": the caller's position

vars == << builder, result, input, fn, ret, prev, edit, pc >>

builderVars == << builder, result >>
checkVars == << input, fn, ret, prev, edit, pc >>

\* The checksum caller at rest (while the builder is exercised).
CheckIdle ==
    /\ input = << >>
    /\ fn = "none"
    /\ ret = "none"
    /\ prev = "none"
    /\ edit = "none"
    /\ pc = "idle"

\* ------------------------------------------------------------------
\* The builder: setters and build()
\* ------------------------------------------------------------------

\* The inputs of the setters under Spec.
BicInputs == { BicGeno }
BeneficiaryInputs == { NameCodeberg, << >> }
IbanInputs == { IbanGood, IbanBadCheck, IbanTwoByte, IbanMalta }
AmountInputs == { Amount10, AmountZero, AmountMax, AmountTenDigits }
PurposeInputs == { Bene, Custom(PurposeABCD), Custom(PurposeLower) }
RemittanceInputs ==
    { Reference(RfGood), Reference(RfTooLong), Reference(RfArabicDigit),
      Text(TextFoo), Text(Rep(97, TextMaxLen + 1)),
      Text(Rep(233, TextMaxLen \div 2 + 1)) }
InformationInputs == { InfoThanks }

\* A setter replaces one field of the builder; the value a previous build()
\* returned does not describe the new builder.  After a panic of build() the
\* program has stopped.
SetField(f, v) ==
    /\ result.tag # "Panic"
    /\ builder' = [builder EXCEPT ![f] = v]
    /\ result' = NoResult
    /\ UNCHANGED checkVars

\* Builder::version
version(v) == SetField("version", Some(v))

\* Builder::character_set
character_set(v) == SetField("character_set", Some(v))

\* Builder::identification
identification(v) == SetField("identification", Some(v))

\* Builder::bic
bic(s) == SetField("bic", Some(s))

\* Builder::beneficiary
beneficiary(s) == SetField("beneficiary", Some(s))

\* Builder::iban: the spaces are removed when the value is stored
iban(s) == SetField("iban", Some(RemoveSpaces(s)))

\* An amount setter that keeps the first value it was given
\* (Option::get_or_insert).
amount_KeepsFirst(s) ==
    SetField("amount", IF builder.amount = None THEN Some(s)
                       ELSE builder.amount)

\* Builder::amount
amount(s) == SetField("amount", Some(s))

\* Builder::purpose
purpose(p) == SetField("purpose", Some(p))

\* Builder::remittance
remittance(r) == SetField("remittance", Some(r))

\* Builder::information
information(s) == SetField("information", Some(s))

\* A build that takes the amount out of the builder (Option::take) while
\* it returns the result.
build_TakesAmount ==
    /\ result.tag # "Panic"
    /\ result' = BuildResult(builder)
    /\ builder' = [builder EXCEPT !.amount = None]
    /\ UNCHANGED checkVars

\* Builder::build: borrows the builder and returns the result
build ==
    /\ result.tag # "Panic"
    /\ result' = BuildResult(builder)
    /\ UNCHANGED builder
    /\ UNCHANGED checkVars

Init ==
    /\ builder = BuilderNew
    /\ result = NoResult
    /\ CheckIdle

Next ==
    \/ \E v \in Versions : version(v)
    \/ \E v \in CharacterSets : character_set(v)
    \/ \E v \in Identifications : identification(v)
    \/ \E s \in BicInputs : bic(s)
    \/ \E s \in BeneficiaryInputs : beneficiary(s)
    \/ \E s \in IbanInputs : iban(s)
    \/ \E s \in AmountInputs : amount(s)
    \/ \E p \in PurposeInputs : purpose(p)
    \/ \E r \in RemittanceInputs : remittance(r)
    \/ \E s \in InformationInputs : information(s)
    \/ build

Spec == Init /\ [][Next]_vars

\* ------------------------------------------------------------------
\* The checksum functions called on their own
\* ------------------------------------------------------------------

\* Bounds of the generated identifiers.
MaxBody == 2
MaxWs == 1

\* "DE", "RF"
CheckPrefixes == { << 68, 69 >>, << 82, 70 >> }
\* the characters tried in the two check-digit positions: 0-9, A, Z
CheckChars == (48..57) \cup {65, 90}
\* the characters tried after them: 0, 1, 7, Z
BodyChars == {48, 49, 55, 90}
\* characters no identifier may hold: a, -, U+00E9, U+0663, U+20AC, tab,
\* U+06F0, U+0968, U+2167 (ROMAN NUMERAL EIGHT, category Nl), U+1D7CE
BadChars == {97, 45, 233, 1635, 8364, 9, 1776, 2408, 8551, 120782}
\* the whitespace inserted into identifiers: space, tab, line feed, and the
\* two-byte U+00A0 (NO-BREAK SPACE)
WsChars == {32, 9, 10, 160}

\* Every prefix, every pair of check characters, every short body.
ShortInputs ==
    { p \o c \o b : p \in CheckPrefixes, c \in [1..2 -> CheckChars],
                    b \in SeqsUpTo(BodyChars, MaxBody) }

\* Identifiers one character below, at and above the two length limits,
\* all zeros or all Z after the check digits.
LongInputs ==
    { p \o c \o Rep(ch, n - 4) :
        p \in CheckPrefixes, c \in [1..2 -> 48..57], ch \in {48, 90},
        n \in ((RfMaxLen - 1)..(RfMaxLen + 1))
              \cup ((IbanMaxLen - 1)..(IbanMaxLen + 1)) }

\* The identifiers of the repository's tests and documentation, and a
\* registry example (Malta).
KnownInputs ==
    { << >>, IbanGood, IbanGoodPlain, IbanBadCheck, IbanMalta, IbanGB,
      IbanTwoByte, IbanArabicDigit, IbanPersianDigit, IbanDevanagariDigit,
      IbanMathDigit, RfGood, RfBadCheck, RfGood2, RfTooLong, RfArabicDigit,
      RfPersianDigit, RfCircledDigit }

\* A valid identifier with one character replaced by a bad one.
MutatedInputs ==
    UNION { { [s EXCEPT ![k] = b] : k \in 1..Len(s), b \in BadChars } :
            s \in {IbanGoodPlain, RfGood} }

\* Every string of at most 4 characters over D, R, F, 0, U+00E9.
TinyInputs == SeqsUpTo({68, 82, 70, 48, 233}, 4)

CheckInputs ==
    ShortInputs \cup LongInputs \cup KnownInputs \cup MutatedInputs
        \cup TinyInputs

\* s with the character w inserted after its first k characters
InsertAt(s, k, w) == SubSeq(s, 1, k) \o << w >> \o SubSeq(s, k + 1, Len(s))

\* s without its k-th character
RemoveAt(s, k) == SubSeq(s, 1, k - 1) \o SubSeq(s, k + 1, Len(s))

\* the number of whitespace characters of s
WsCount(s) == Cardinality({k \in 1..Len(s) : is_whitespace(s[k])})

\* A caller evaluates iban::is_valid(input).
call_iban_is_valid ==
    /\ pc \in {"start", "edited"}
    /\ fn' = "iban"
    /\ ret' = iban_is_valid(input)
    /\ pc' = "done"
    /\ UNCHANGED << input, prev, edit >>
    /\ UNCHANGED builderVars

\* A caller evaluates rf::is_valid(input).
call_rf_is_valid ==
    /\ pc = "start"
    /\ fn' = "rf"
    /\ ret' = rf_is_valid(input)
    /\ pc' = "done"
    /\ UNCHANGED << input, prev, edit >>
    /\ UNCHANGED builderVars

\* The caller inserts the whitespace character w into an IBAN that
\* iban::is_valid accepted, to validate it again.
InsertWhitespace(k, w) ==
    /\ pc = "done" /\ fn = "iban" /\ ret = "true"
    /\ WsCount(input) < MaxWs
    /\ input' = InsertAt(input, k, w)
    /\ prev' = ret
    /\ edit' = IF w = 32 THEN "space" ELSE "other"
    /\ fn' = "none"
    /\ ret' = "none"
    /\ pc' = "edited"
    /\ UNCHANGED builderVars

\* The caller removes a whitespace character from an IBAN that
\* iban::is_valid accepted, to validate it again.
RemoveWhitespace(k) ==
    /\ pc = "done" /\ fn = "iban" /\ ret = "true"
    /\ is_whitespace(input[k])
    /\ input' = RemoveAt(input, k)
    /\ prev' = ret
    /\ edit' = IF input[k] = 32 THEN "space" ELSE "other"
    /\ fn' = "none"
    /\ ret' = "none"
    /\ pc' = "edited"
    /\ UNCHANGED builderVars

InitCheck ==
    /\ builder = BuilderNew
    /\ result = NoResult
    /\ input \in CheckInputs
    /\ fn = "none"
    /\ ret = "none"
    /\ prev = "none"
    /\ edit = "none"
    /\ pc = "start"

NextCheck ==
    \/ call_iban_is_valid
    \/ call_rf_is_valid
    \/ \E k \in 0..Len(input), w \in WsChars : InsertWhitespace(k, w)
    \/ \E k \in 1..Len(input) : RemoveWhitespace(k)

SpecCheck == InitCheck /\ [][NextCheck]_vars

\* ------------------------------------------------------------------
\* build() on the fixture of tests::invalid_amount_should_fail, for
\* every short amount string
\* ------------------------------------------------------------------

\* Bound of the generated amount strings.
MaxAmountLen == 5

\* the characters of the generated amounts: 0, 1, 9, '.', '-'
AmountChars == {48, 49, 57, 46, 45}

AmountStrings ==
    SeqsUpTo(AmountChars, MaxAmountLen)
        \cup { AmountMax, AmountTenDigits, AmountTenDigits2, AmountNineZeros,
               Rep(48, 9) \o << 46, 48, 48 >>,
               Rep(57, 8) \o << 46, 48, 48 >> }

\* The builder of tests::invalid_amount_should_fail before its amount call.
AmountFixture ==
    [ BuilderNew EXCEPT
        !.version = Some("V2"), !.character_set = Some("UTF8"),
        !.identification = Some("Sct"),
        !.iban = Some(RemoveSpaces(IbanGood)),
        !.beneficiary = Some(NameCodeberg),
        !.remittance = Some(Text(TextFoo)) ]

InitAmount ==
    /\ builder \in { [AmountFixture EXCEPT !.amount = Some(a)] :
                        a \in AmountStrings }
    /\ result = NoResult
    /\ CheckIdle

NextAmount ==
    \/ build
    \/ \E s \in AmountInputs : amount(s)

SpecAmount == InitAmount /\ [][NextAmount]_vars

\* ------------------------------------------------------------------
\* build() and to_string() on a builder whose required fields are set,
\* for values that show in the text: absent, empty, of two lines
\* ------------------------------------------------------------------

FmtBicInputs == { BicGeno, << >> }
FmtBeneficiaryInputs == { NameCodeberg, NameTwoLines }
FmtIbanInputs == { IbanGood, IbanTabbed }
FmtAmountInputs == { Amount10, AmountLeadingZeros }
FmtPurposeInputs == { Bene, Custom(PurposeBENE) }
FmtRemittanceInputs ==
    { Reference(RfGood), Text(TextFoo), Text(<< >>), Text(RfGood) }
FmtInformationInputs == { InfoThanks, << >>, InfoTwoLines }

\* The builder of tests::missing_bic_in_version2_should_succeed without its
\* remittance, for either identification, holding the IBAN of the tests of
\* ibanrf.rs.
FormatFixtures ==
    { [ BuilderNew EXCEPT
          !.version = Some("V2"), !.character_set = Some("UTF8"),
          !.identification = Some(i),
          !.beneficiary = Some(NameCodeberg),
          !.iban = Some(RemoveSpaces(IbanGB)) ] : i \in Identifications }

InitFormat ==
    /\ builder \in FormatFixtures
    /\ result = NoResult
    /\ CheckIdle

NextFormat ==
    \/ \E v \in Versions : version(v)
    \/ \E v \in CharacterSets : character_set(v)
    \/ \E v \in Identifications : identification(v)
    \/ \E s \in FmtBicInputs : bic(s)
    \/ \E s \in FmtBeneficiaryInputs : beneficiary(s)
    \/ \E s \in FmtIbanInputs : iban(s)
    \/ \E s \in FmtAmountInputs : amount(s)
    \/ \E p \in FmtPurposeInputs : purpose(p)
    \/ \E r \in FmtRemittanceInputs : remittance(r)
    \/ \E s \in FmtInformationInputs : information(s)
    \/ build

SpecFormat == InitFormat /\ [][NextFormat]_vars

\* ------------------------------------------------------------------
\* build() on the fixture of tests::invalid_purpose_should_fail, for
\* every short custom purpose code
\* ------------------------------------------------------------------

\* Bound of the generated purpose codes.
MaxPurposeLen == 5

\* the characters of the generated codes: A, B, a, 1, U+00C9
PurposeChars == {65, 66, 97, 49, 201}

PurposeStrings ==
    SeqsUpTo(PurposeChars, MaxPurposeLen)
        \cup { PurposeABCD, PurposeLower, PurposeABCDE, PurposeABC1,
               PurposeABC, PurposeAB1D, PurposeBENE }

\* The builder of tests::invalid_purpose_should_fail before its purpose call.
PurposeFixture ==
    [ BuilderNew EXCEPT
        !.version = Some("V2"), !.character_set = Some("UTF8"),
        !.identification = Some("Sct"),
        !.beneficiary = Some(NameCodeberg),
        !.iban = Some(RemoveSpaces(IbanGood)),
        !.remittance = Some(Text(TextFoo)) ]

InitPurpose ==
    /\ builder \in { [PurposeFixture EXCEPT !.purpose = Some(Custom(c))] :
                        c \in PurposeStrings }
                   \cup { PurposeFixture }
    /\ result = NoResult
    /\ CheckIdle

NextPurpose ==
    \/ build
    \/ \E p \in PurposeInputs : purpose(p)

SpecPurpose == InitPurpose /\ [][NextPurpose]_vars

\* ------------------------------------------------------------------
\* The rules as the specification words them
\* ------------------------------------------------------------------

IsUpperOrDigit(c) == is_ascii_uppercase(c) \/ is_ascii_digit(c)

\* A structurally valid IBAN: after space removal, 5 to 34 characters, two
\* uppercase letters, then uppercase letters or digits.
IbanStructValid(s) ==
    LET t == RemoveSpaces(s)
    IN  /\ Len(t) \in 5..34
        /\ is_ascii_uppercase(t[1]) /\ is_ascii_uppercase(t[2])
        /\ \A k \in 3..Len(t) : IsUpperOrDigit(t[k])

\* A structurally valid RF reference: 5 to 25 characters, "RF", then
\* uppercase letters or digits.
RfStructValid(s) ==
    /\ Len(s) \in 5..25
    /\ s[1] = 82 /\ s[2] = 70
    /\ \A k \in 3..Len(s) : IsUpperOrDigit(s[k])

\* The reference check: first 4 characters moved to the end, then
\* acc = (acc*10 + digit) mod 97 for a digit and
\* acc = (acc*100 + (letter - 'A' + 10)) mod 97 for a letter.
RECURSIVE RefFold(_, _, _)
RefFold(s, k, acc) ==
    IF k > Len(s) THEN acc
    ELSE RefFold(s, k + 1,
                 IF is_ascii_digit(s[k])
                 THEN (acc * 10 + (s[k] - 48)) % 97
                 ELSE (acc * 100 + (s[k] - 65 + 10)) % 97)

RefCheck(s) == RefFold(SubSeq(s, 5, Len(s)) \o SubSeq(s, 1, 4), 1, 0)

\* Valid as the specification defines it: structure, then check value 1.
SpecIbanValid(s) == IbanStructValid(s) /\ RefCheck(RemoveSpaces(s)) = 1
SpecRfValid(s) == RfStructValid(s) /\ RefCheck(s) = 1

\* The input of the finished call is structurally valid for the function
\* that was called.
CalledOnStructValid ==
    \/ fn = "iban" /\ IbanStructValid(input)
    \/ fn = "rf" /\ RfStructValid(input)

\* The amount rule in the words of the builder's section: a character
\* outside [0-9.], not exactly one '.', an integer part of more than 9
\* digits, a fractional part not of 2 digits, or the value zero.
DotCount(s) == Cardinality({k \in 1..Len(s) : s[k] = 46})
IntPart(s) == SplitOnceDot(s)[1][1]
FracPart(s) == SplitOnceDot(s)[1][2]
AmountRejectedAsWorded(s) ==
    \/ \E k \in 1..Len(s) : ~(is_ascii_digit(s[k]) \/ s[k] = 46)
    \/ DotCount(s) # 1
    \/ Len(IntPart(s)) > 9
    \/ Len(FracPart(s)) # 2
    \/ \A k \in 1..Len(s) : s[k] \in {48, 46}

\* ... and with the data model's "integer part 1-9 digits" added.
AmountRejectedAmended(s) ==
    \/ AmountRejectedAsWorded(s)
    \/ IntPart(s) = << >>

\* The first rule, in the specified order, that the builder violates, as
\* the error it stands for; "none" when it violates none.
SpecFirstViolated(b) ==
    IF b.version = None THEN "MissingVersion"
    ELSE IF b.character_set = None THEN "MissingCharacterSet"
    ELSE IF b.identification = None THEN "MissingIdentification"
    ELSE IF b.bic = None /\ b.version[1] # "V2"
    THEN "BICRequiredInConfiguredVersion"
    ELSE IF b.beneficiary = None THEN "MissingBeneficiary"
    ELSE IF b.iban = None THEN "MissingIBAN"
    ELSE IF ~SpecIbanValid(b.iban[1]) THEN "InvalidIBAN"
    ELSE IF b.amount # None /\ AmountRejectedAmended(b.amount[1])
    THEN "InvalidAmount"
    ELSE IF /\ b.purpose # None /\ b.purpose[1].kind = "Custom"
            /\ ~(/\ Len(b.purpose[1].s) = 4
                 /\ \A k \in 1..4 : is_ascii_uppercase(b.purpose[1].s[k]))
    THEN "InvalidPurpose"
    ELSE IF /\ b.remittance # None /\ b.remittance[1].kind = "Reference"
            /\ ~SpecRfValid(b.remittance[1].s)
    THEN "InvalidRemittanceReference"
    ELSE IF /\ b.remittance # None /\ b.remittance[1].kind = "Text"
            /\ CharLen(b.remittance[1].s) > 140
    THEN "RemittanceTextTooLong"
    ELSE "none"

\* build() gets as far as the remittance rule: every earlier rule passes.
ReachesRemittanceRule(b) ==
    BuildResult([b EXCEPT !.remittance = None]).tag = "Ok"

\* ------------------------------------------------------------------
\* Claims
\* ------------------------------------------------------------------

\* C1: build() never panics: every call returns a payload or exactly one
\* EpcError value, whatever strings the builder holds.
C1_BuildNeverPanics ==
    result.tag # "None" =>
        \/ result.tag = "Ok"
        \/ result.tag = "Err" /\ result.err \in EpcError

\* C2: the checksum computation never overflows: on every structurally
\* valid identifier up to the maximum length, is_valid returns a boolean.
C2_NoOverflow ==
    (pc = "done" /\ CalledOnStructValid) => ret \in {"true", "false"}

\* C3: is_valid never fails: every structurally invalid input (too short,
\* lowercase, punctuation, multi-byte, non-ASCII numeric) yields false.
C3_InvalidStructureYieldsFalse ==
    (pc = "done" /\ ~CalledOnStructValid) => ret = "false"

\* C4: on every structurally valid identifier, is_valid returns true
\* exactly when the reference check value is 1, and false otherwise.
C4_IsValidMatchesReference ==
    /\ (pc = "done" /\ fn = "iban" /\ IbanStructValid(input)) =>
            ret = BoolOutcome(RefCheck(RemoveSpaces(input)) = 1)
    /\ (pc = "done" /\ fn = "rf" /\ RfStructValid(input)) =>
            ret = BoolOutcome(RefCheck(input) = 1)

\* C5: whenever the builder violates one or more rules, build() returns the
\* error of the earliest violated rule in the specified order.
C5_FirstFailingRuleReported ==
    (result.tag # "None" /\ SpecFirstViolated(builder) # "none") =>
        result = Err(SpecFirstViolated(builder))

\* C6: every payload a successful build() returns satisfies all field
\* constraints of the data model.
C6_PayloadSatisfiesConstraints ==
    result.tag = "Ok" =>
        LET e == result.epc[1]
        IN  /\ e.bic # None \/ e.version = "V2"
            /\ e.beneficiary # << >>
            /\ \A k \in 1..Len(e.iban) : ~is_whitespace(e.iban[k])
            /\ SpecIbanValid(e.iban)
            /\ e.amount # None =>
                   /\ DotCount(e.amount[1]) = 1
                   /\ Len(IntPart(e.amount[1])) \in 1..9
                   /\ Len(FracPart(e.amount[1])) = 2
                   /\ AllAsciiDigits(IntPart(e.amount[1]))
                   /\ AllAsciiDigits(FracPart(e.amount[1]))
                   /\ \E k \in 1..Len(e.amount[1]) :
                          e.amount[1][k] \in 49..57
            /\ (e.purpose # None /\ e.purpose[1].kind = "Custom") =>
                   /\ Len(e.purpose[1].s) = 4
                   /\ AllAsciiUppercase(e.purpose[1].s)
            /\ (e.remittance # None /\ e.remittance[1].kind = "Reference")
                   => SpecRfValid(e.remittance[1].s)
            /\ (e.remittance # None /\ e.remittance[1].kind = "Text")
                   => CharLen(e.remittance[1].s) <= 140

\* C7 as worded: build() returns InvalidAmount exactly for the amounts with
\* a character outside [0-9.], not exactly one '.', an integer part of more
\* than 9 digits, a fractional part not of 2 digits, or the value zero, and
\* accepts every other amount.
C7_AmountRuleAsWorded ==
    (result.tag # "None" /\ builder.amount # None
        /\ builder = [AmountFixture EXCEPT !.amount = builder.amount]) =>
        IF AmountRejectedAsWorded(builder.amount[1])
        THEN result = Err("InvalidAmount")
        ELSE result.tag = "Ok"

\* C7 as amended: ... or an empty integer part (no digit before the '.').
C7_AmountRule ==
    (result.tag # "None" /\ builder.amount # None
        /\ builder = [AmountFixture EXCEPT !.amount = builder.amount]) =>
        IF AmountRejectedAmended(builder.amount[1])
        THEN result = Err("InvalidAmount")
        ELSE result.tag = "Ok"

\* C7's case: build() has rejected ".11", whose only fault is its empty
\* integer part.
C7_Witness ==
    /\ builder.amount = Some(<< 46, 49, 49 >>)
    /\ ~AmountRejectedAsWorded(builder.amount[1])
    /\ result = Err("InvalidAmount")

\* C8: with all earlier rules satisfied, build() returns
\* RemittanceTextTooLong exactly when the text has more than 140
\* characters, and accepts it otherwise.
C8_TextLengthInCharacters ==
    (/\ result.tag # "None"
     /\ builder.remittance # None /\ builder.remittance[1].kind = "Text"
     /\ ReachesRemittanceRule(builder)) =>
        IF CharLen(builder.remittance[1].s) > 140
        THEN result = Err("RemittanceTextTooLong")
        ELSE result.tag = "Ok"

\* C9 as worded: an IBAN that iban::is_valid accepts is still accepted
\* after any whitespace character is inserted or removed.
C9_WhitespaceInsensitive ==
    (pc = "done" /\ prev = "true" /\ edit # "none") => ret = "true"

\* C9 as amended: ... after a space (U+0020) is inserted or removed.
C9_SpaceInsensitive ==
    (pc = "done" /\ prev = "true" /\ edit = "space") => ret = "true"

\* C9's case: an accepted IBAN was validated again with a space in it
\* and accepted.
C9_Witness ==
    /\ pc = "done" /\ prev = "true" /\ edit = "space" /\ ret = "true"
    /\ WsCount(input) >= 1

\* C10: is_valid returns true only for identifiers whose 3rd and 4th
\* characters are decimal digits.
C10_CheckDigitsAreDigits ==
    (pc = "done" /\ ret = "true") =>
        LET t == IF fn = "iban" THEN RemoveSpaces(input) ELSE input
        IN  is_ascii_digit(t[3]) /\ is_ascii_digit(t[4])

\* The builder violates no rule once a BIC is set: "all other fields valid".
OtherFieldsValid(b) ==
    SpecFirstViolated([b EXCEPT !.bic = Some(BicGeno)]) = "none"

\* C11: with version, character set and identification set and all other
\* fields valid, build() with no BIC returns BICRequiredInConfiguredVersion
\* for V1 and succeeds for V2; with a BIC set neither version gives that
\* error.
C11_VersionBicInteraction ==
    ( /\ result.tag # "None"
      /\ builder.version # None
      /\ builder.character_set # None
      /\ builder.identification # None ) =>
        /\ (builder.bic = None /\ OtherFieldsValid(builder)) =>
               IF builder.version[1] = "V1"
               THEN result = Err("BICRequiredInConfiguredVersion")
               ELSE result.tag = "Ok"
        /\ builder.bic # None =>
               result # Err("BICRequiredInConfiguredVersion")

\* The purpose rule in the words of the builder's section: a custom code is
\* valid iff it has exactly 4 characters, all uppercase ASCII letters.
PurposeValidAsWorded(p) ==
    \/ p.kind = "Bene"
    \/ /\ p.kind = "Custom"
       /\ CharLen(p.s) = 4
       /\ \A k \in 1..Len(p.s) : p.s[k] \in 65..90

\* C12: on a builder whose other fields pass, Purpose::Bene is accepted, a
\* Custom(c) is accepted exactly when c is 4 characters, all uppercase ASCII
\* letters, and build() returns InvalidPurpose for every other custom code.
C12_PurposeRule ==
    (result.tag # "None" /\ builder.purpose # None) =>
        IF PurposeValidAsWorded(builder.purpose[1])
        THEN result = Ok(EpcOf(builder))
        ELSE result = Err("InvalidPurpose")

\* build() has rejected the custom code "AB1D".
C12_Witness ==
    /\ result = Err("InvalidPurpose")
    /\ builder.purpose = Some(Custom(PurposeAB1D))

\* ------------------------------------------------------------------
\* The text format as the specification words it
\* ------------------------------------------------------------------

\* The lines of t as str::lines() gives them: the parts between newlines,
\* a final empty part not counted.
RECURSIVE SplitLinesFrom(_, _, _)
SplitLinesFrom(t, k, cur) ==
    IF k > Len(t) THEN << cur >>
    ELSE IF t[k] = 10 THEN << cur >> \o SplitLinesFrom(t, k + 1, << >>)
    ELSE SplitLinesFrom(t, k + 1, Append(cur, t[k]))

\* t split on newline: one part more than t has newlines.
SplitLines(t) == SplitLinesFrom(t, 1, << >>)

Lines(t) ==
    LET parts == SplitLines(t)
    IN  IF parts[Len(parts)] = << >>
        THEN SubSeq(parts, 1, Len(parts) - 1)
        ELSE parts

\* The twelve fields of the layout of section 4.3, in its order: service tag,
\* version code, character-set code, identification code, BIC or empty,
\* beneficiary, IBAN, amount or empty, purpose code or empty, remittance
\* reference, remittance text, information or empty.
FieldTexts(e) ==
    << << 66, 67, 68 >>,
       IF e.version = "V1" THEN << 48, 48, 49 >> ELSE << 48, 48, 50 >>,
       << 49 >>,
       IF e.identification = "Sct" THEN << 83, 67, 84 >>
                                   ELSE << 73, 78, 83, 84 >>,
       IF e.bic = None THEN << >> ELSE e.bic[1],
       e.beneficiary,
       e.iban,
       IF e.amount = None THEN << >> ELSE e.amount[1],
       IF e.purpose = None THEN << >>
       ELSE IF e.purpose[1].kind = "Bene" THEN << 66, 69, 78, 69 >>
       ELSE e.purpose[1].s,
       IF e.remittance # None /\ e.remittance[1].kind = "Reference"
       THEN e.remittance[1].s ELSE << >>,
       IF e.remittance # None /\ e.remittance[1].kind = "Text"
       THEN e.remittance[1].s ELSE << >>,
       IF e.information = None THEN << >> ELSE e.information[1] >>

\* The fields joined by single newlines, none after the last.
RECURSIVE JoinLines(_)
JoinLines(fields) ==
    IF Len(fields) = 0 THEN << >>
    ELSE IF Len(fields) = 1 THEN fields[1]
    ELSE fields[1] \o << 10 >> \o JoinLines(Tail(fields))

\* The absent optional fields of a payload, as positions of the layout; an
\* absent remittance leaves both of its lines.
AbsentPositions(e) ==
    { k \in {5, 8, 9, 10, 11, 12} :
        \/ k = 5 /\ e.bic = None
        \/ k = 8 /\ e.amount = None
        \/ k = 9 /\ e.purpose = None
        \/ k \in {10, 11} /\ e.remittance = None
        \/ k = 12 /\ e.information = None }

\* C13: the text of every built payload has exactly 11 lines, the two
\* remittance lines counted as two, and every optional field that is absent
\* (BIC, amount, purpose, remittance, information) is an empty line of the
\* text and not an omitted one.
C13_ElevenLines ==
    result.tag = "Ok" =>
        LET e == result.epc[1]
            parts == SplitLines(Format(e))
        IN  /\ Len(Lines(Format(e))) = 11
            /\ \A k \in AbsentPositions(e) :
                   k <= Len(parts) /\ parts[k] = << >>

\* s is what t ends with
EndsWith(t, s) ==
    Len(s) <= Len(t) /\ SubSeq(t, Len(t) - Len(s) + 1, Len(t)) = s

\* s is what t starts with
StartsWith(t, s) == Len(s) <= Len(t) /\ SubSeq(t, 1, Len(s)) = s

\* C14 as worded: of lines 10 and 11 of the text of a built payload exactly
\* one is non-empty, a Reference being line 10 and a Text line 11, and the
\* text ends with the information, no newline after it.
C14_ExactlyOneRemittanceLine ==
    result.tag = "Ok" =>
        LET e == result.epc[1]
            t == Format(e)
            lines == SplitLines(t)
        IN  /\ Len(lines) >= 11
            /\ (lines[10] # << >>) # (lines[11] # << >>)
            /\ (e.remittance # None /\ e.remittance[1].kind = "Reference")
                   => lines[10] = e.remittance[1].s /\ lines[11] = << >>
            /\ (e.remittance # None /\ e.remittance[1].kind = "Text")
                   => lines[10] = << >> /\ lines[11] = e.remittance[1].s
            /\ EndsWith(t, UnwrapOrEmpty(e.information))

\* C14: after the nine lines up to the purpose the text of a built payload
\* holds the remittance reference field, a newline, the remittance text
\* field, a newline, and the information with nothing after it; at most one
\* of the two remittance fields is non-empty (both are empty when the
\* remittance is absent or an empty text), a Reference being the first and a
\* Text the second.
C14_AtMostOneRemittanceField ==
    result.tag = "Ok" =>
        LET e == result.epc[1]
            t == Format(e)
            head == JoinLines(SubSeq(FieldTexts(e), 1, 9)) \o << 10 >>
            ref == FieldTexts(e)[10]
            txt == FieldTexts(e)[11]
            info == UnwrapOrEmpty(e.information)
        IN  /\ StartsWith(t, head)
            /\ EndsWith(t, info)
            /\ SubSeq(t, Len(head) + 1, Len(t) - Len(info))
                   = ref \o << 10 >> \o txt \o << 10 >>
            /\ ref = << >> \/ txt = << >>
            /\ (e.remittance # None /\ e.remittance[1].kind = "Reference")
                   => ref = e.remittance[1].s /\ txt = << >>
            /\ (e.remittance # None /\ e.remittance[1].kind = "Text")
                   => ref = << >> /\ txt = e.remittance[1].s
            /\ e.remittance = None => ref = << >> /\ txt = << >>

\* A payload with a remittance text and an information has been built.
C14_Witness ==
    /\ result.tag = "Ok"
    /\ result.epc[1].remittance = Some(Text(TextFoo))
    /\ result.epc[1].information = Some(InfoThanks)

\* The payloads that differ from e in the one field f, with v in its place.
WithField(e, f, v) == [e EXCEPT ![f] = v]

\* The builder whose fields are those of the payload e.
BuilderOf(e) ==
    [ service_tag |-> e.service_tag, version |-> Some(e.version),
      character_set |-> Some(e.character_set),
      identification |-> Some(e.identification), bic |-> e.bic,
      beneficiary |-> Some(e.beneficiary), iban |-> Some(e.iban),
      amount |-> e.amount, purpose |-> e.purpose,
      remittance |-> e.remittance, information |-> e.information ]

\* Payloads build() also returns, each differing from e in one field: the
\* BIC, the information or the remittance absent or empty, the purpose Bene
\* or the custom code "BENE", a Reference turned into a Text.
OtherBuiltPayloads(e) ==
    { p \in
        { WithField(e, "bic", IF e.version = "V2" THEN None ELSE Some(BicGeno)),
          WithField(e, "bic", Some(<< >>)),
          WithField(e, "information", None),
          WithField(e, "information", Some(<< >>)),
          WithField(e, "remittance", None),
          WithField(e, "remittance", Some(Text(<< >>))),
          WithField(e, "remittance",
                    IF e.remittance = None THEN None
                    ELSE Some(Text(e.remittance[1].s))),
          WithField(e, "purpose", Some(Bene)),
          WithField(e, "purpose", Some(Custom(PurposeBENE))),
          WithField(e, "amount", None),
          WithField(e, "amount", Some(Amount10)),
          WithField(e, "identification", "Inst"),
          WithField(e, "identification", "Sct") } :
        p # e /\ BuildResult(BuilderOf(p)) = Ok(p) }

\* C15: serialization is lossless: two built payloads that differ in some
\* field (an optional field absent or empty, a Reference or a Text) have
\* different texts.
C15_SerializationLossless ==
    result.tag = "Ok" =>
        \A p \in OtherBuiltPayloads(result.epc[1]) :
            Format(p) # Format(result.epc[1])

\* The fields of the builder.
BuilderFields == DOMAIN BuilderNew

\* C16: build() has no effect on the builder: a step that returns a result
\* leaves every builder field as it was, failed or successful, and a second
\* build() of the unchanged builder returns the same result as the first.
C16_BuildLeavesBuilder ==
    [][ result'.tag # "None" =>
            /\ \A f \in BuilderFields : builder'[f] = builder[f]
            /\ result.tag # "None" => result' = result ]_vars

\* build() has failed on the amount "0.00" of tests::invalid_amount_should_fail
\* and the builder still holds every field it was given.
C16_Witness ==
    /\ result = Err("InvalidAmount")
    /\ builder = [AmountFixture EXCEPT !.amount = Some(AmountZero)]

\* The builder after a setter call: the field f holds v, every other field
\* what it held before.
OnlyFieldSet(f, v) == builder' = [builder EXCEPT ![f] = Some(v)]

\* C20: setters are independent, order-insensitive and last-write-wins:
\* each setter call leaves the builder with its own field at the value just
\* given (the IBAN without its spaces), whatever the field held before, and
\* every other field unchanged; build() returns what the fields as they
\* stand determine, so equal last values per field give equal results.
C20_SettersIndependent ==
    [][ /\ \A v \in Versions : version(v) => OnlyFieldSet("version", v)
        /\ \A v \in CharacterSets :
               character_set(v) => OnlyFieldSet("character_set", v)
        /\ \A v \in Identifications :
               identification(v) => OnlyFieldSet("identification", v)
        /\ \A s \in FmtBicInputs : bic(s) => OnlyFieldSet("bic", s)
        /\ \A s \in FmtBeneficiaryInputs :
               beneficiary(s) => OnlyFieldSet("beneficiary", s)
        /\ \A s \in FmtIbanInputs :
               iban(s) => OnlyFieldSet("iban", SelectSeq(s, LAMBDA c : c # 32))
        /\ \A s \in FmtAmountInputs : amount(s) => OnlyFieldSet("amount", s)
        /\ \A p \in FmtPurposeInputs : purpose(p) => OnlyFieldSet("purpose", p)
        /\ \A r \in FmtRemittanceInputs :
               remittance(r) => OnlyFieldSet("remittance", r)
        /\ \A s \in FmtInformationInputs :
               information(s) => OnlyFieldSet("information", s)
        /\ \A f \in BuilderFields :
               builder'[f] # builder[f] =>
                   \A g \in BuilderFields \ {f} : builder'[g] = builder[g]
        /\ result'.tag # "None" => result' = BuildResult(builder') ]_vars

\* Every field has been set, the version and the IBAN to other values than
\* the builder started with, and build() has returned the payload of the
\* values held.
C20_Witness ==
    /\ \A f \in BuilderFields \ {"service_tag"} : builder[f] # None
    /\ builder.version = Some("V1")
    /\ builder.amount = Some(AmountLeadingZeros)
    /\ result = Ok(EpcOf(builder))

\* s holds no whitespace character
WhitespaceFree(s) == \A k \in 1..Len(s) : ~is_whitespace(s[k])

\* C17: after iban(s) the stored value holds no whitespace character,
\* whatever s was, and line 7 of the text of a built payload is that value.
C17_SetterStripsWhitespace ==
    /\ builder.iban # None => WhitespaceFree(builder.iban[1])
    /\ result.tag = "Ok" =>
           /\ Len(SplitLines(Format(result.epc[1]))) >= 7
           /\ SplitLines(Format(result.epc[1]))[7] = builder.iban[1]

\* C18 as worded: for every amount build() accepts, the amount of the
\* payload and line 8 of its text are the string given to the setter.
C18_AmountVerbatim ==
    (result.tag = "Ok" /\ builder.amount # None) =>
        /\ result.epc[1].amount = builder.amount
        /\ Len(SplitLines(Format(result.epc[1]))) >= 8
        /\ SplitLines(Format(result.epc[1]))[8] = builder.amount[1]

\* C19: line positions are fixed for every built payload: line 1 is "BCD",
\* line 5 the BIC or empty, line 6 the beneficiary, line 7 the IBAN, line 8
\* the amount or empty, line 9 the purpose or empty, line 12 the information
\* or empty, whatever strings were given.
C19_LinePositionsFixed ==
    result.tag = "Ok" =>
        LET e == result.epc[1]
            lines == SplitLines(Format(e))
        IN  /\ Len(lines) >= 12
            /\ lines[1] = << 66, 67, 68 >>
            /\ lines[5] = FieldTexts(e)[5]
            /\ lines[6] = e.beneficiary
            /\ lines[7] = e.iban
            /\ lines[8] = FieldTexts(e)[8]
            /\ lines[9] = FieldTexts(e)[9]
            /\ lines[12] = FieldTexts(e)[12]

====
